---- MODULE Spec2Model ----
(***************************************************************************)
(* Rugged::BranchCollection (ext/rugged/rugged_branch_collection.c).       *)
(*                                                                         *)
(* A reference name is a sequence of its path components, so that          *)
(* "refs/heads/x" is <<"refs", "heads", "x">>: strncmp against a prefix    *)
(* ending in "/" is a test on the leading components and strcat is \o.     *)
(* The reference store (libgit2) is a function from the names of the       *)
(* references it holds to their targets.                                   *)
(***************************************************************************)
EXTENDS Naturals, Sequences, FiniteSets

VARIABLES
    refs,    \* the repository's reference store: name -> target
    held,    \* Rugged::Branch objects the caller keeps
    last,    \* the last collection call: its arguments and its outcome
    it       \* the each / each_name call in progress (each_branch's locals)

vars == <<refs, held, last, it>>

----------------------------------------------------------------------------
(* Bounds of the model *)

\* Rugged::Branch objects the caller keeps at the same time
MaxHeld == 1

----------------------------------------------------------------------------
(* Names and values *)

\* the commits of the object database
Commits == {"c1", "c2"}

\* a revision string that names no commit
BadTarget == "nocommit"

HeadsPrefix == <<"refs", "heads">>
RemotesPrefix == <<"refs", "remotes">>
RefsPrefix == <<"refs">>
HeadName == <<"HEAD">>

\* HEAD is a symbolic reference to the branch m, which no call of the model
\* creates, renames or deletes
HeadTarget == "ref: refs/heads/m"

NoName == <<>>

\* names given to create by the caller of the model
CreateNames == {<<"x">>, <<"refs", "heads", "x">>}

\* new names given to move by the caller of the model
MoveNames == {<<"y">>, <<"refs", "heads", "x">>}

\* the names the properties of create and move range over
NewNames == CreateNames \cup MoveNames \cup {HeadName}

\* strings given to [], exist?, delete and move by the caller of the model
CallNames ==
    {<<"x">>, <<"heads", "x">>, <<"tags", "x">>,
     <<"refs", "heads", "x">>, <<"refs", "remotes", "x">>, HeadName}

\* strings given to delete and move by the caller of the model
MutateNames ==
    {<<"x">>, <<"heads", "x">>, <<"refs", "heads", "x">>,
     <<"refs", "remotes", "x">>}

\* the strings the properties of the resolver range over
LookupNames ==
    CallNames \cup {<<"y">>, <<"m">>, <<"z">>, <<"tags", "y">>,
                    <<"refs", "heads", "y">>, <<"refs", "heads", "z">>}

\* the references of which the caller keeps the Rugged::Branch it is returned
KeptNames == {<<"refs", "heads", "x">>}

\* the names of the references a store of the model can hold, in the order
\* of their names (strcmp order of the joined strings)
NameOrder ==
    <<HeadName,
      <<"refs", "heads", "m">>,
      <<"refs", "heads", "refs", "heads", "x">>,
      <<"refs", "heads", "x">>,
      <<"refs", "heads", "y">>,
      <<"refs", "remotes", "x">>,
      <<"refs", "tags", "x">>>>

AllNames == {NameOrder[i] : i \in 1..Len(NameOrder)}

\* strncmp(s, prefix "/", strlen(prefix "/")) == 0
HasPrefix(s, prefix) ==
    /\ Len(s) > Len(prefix)
    /\ SubSeq(s, 1, Len(prefix)) = prefix

IsLocal(n) == HasPrefix(n, HeadsPrefix)
IsRemote(n) == HasPrefix(n, RemotesPrefix)

\* git_reference_shorthand: the name without its namespace prefix
Shorthand(n) ==
    IF IsLocal(n) THEN SubSeq(n, Len(HeadsPrefix) + 1, Len(n))
    ELSE IF IsRemote(n) THEN SubSeq(n, Len(RemotesPrefix) + 1, Len(n))
    ELSE IF HasPrefix(n, RefsPrefix) THEN SubSeq(n, Len(RefsPrefix) + 1, Len(n))
    ELSE n

----------------------------------------------------------------------------
(* The reference store: libgit2's contract *)

\* what a git_reference* local holds: a reference, NULL, or nothing it was
\* ever assigned
Ptr(n) == [state |-> "set", name |-> n]
NullPtr == [state |-> "null", name |-> NoName]
UninitPtr == [state |-> "uninit", name |-> NoName]

\* git_reference_lookup(out, repo, name): *out is written on success only
git_reference_lookup(store, out, name, fail) ==
    IF fail THEN [error |-> "GIT_ERROR", branch |-> out]
    ELSE IF name \in DOMAIN store THEN [error |-> "GIT_OK", branch |-> Ptr(name)]
    ELSE [error |-> "GIT_ENOTFOUND", branch |-> out]

\* git_branch_lookup(out, repo, name, type): looks up the name under the
\* namespace of the type; *out is NULL on error
git_branch_lookup(store, name, prefix, fail) ==
    git_reference_lookup(store, NullPtr, prefix \o name, fail)

\* the store with the reference name written, pointing to target
Put(store, name, target) ==
    [n \in DOMAIN store \cup {name} |-> IF n = name THEN target ELSE store[n]]

\* the store without the reference name
Remove(store, name) == [n \in DOMAIN store \ {name} |-> store[n]]

\* git_branch_create(out, repo, name, commit, force): writes refs/heads/<name>
git_branch_create(store, name, target, force, fail) ==
    LET ref == HeadsPrefix \o name
    IN  IF fail THEN [error |-> "GIT_ERROR", store |-> store, branch |-> NoName]
        ELSE IF ref \in DOMAIN store /\ ~force
        THEN [error |-> "GIT_EEXISTS", store |-> store, branch |-> NoName]
        ELSE [error |-> "GIT_OK", store |-> Put(store, ref, target), branch |-> ref]

\* git_branch_delete(branch): removes a local or remote branch
git_branch_delete(store, ref, fail) ==
    IF fail \/ ~(IsLocal(ref) \/ IsRemote(ref)) \/ ref \notin DOMAIN store
    THEN [error |-> "GIT_ERROR", store |-> store]
    ELSE [error |-> "GIT_OK", store |-> Remove(store, ref)]

\* git_branch_move(out, branch, new_name, force): renames a local branch to
\* refs/heads/<new_name>
git_branch_move(store, ref, new_name, force, fail) ==
    LET new == HeadsPrefix \o new_name
    IN  IF fail \/ ~IsLocal(ref) \/ ref \notin DOMAIN store
        THEN [error |-> "GIT_ERROR", store |-> store, branch |-> NoName]
        ELSE IF new \in DOMAIN store /\ ~force
        THEN [error |-> "GIT_EEXISTS", store |-> store, branch |-> NoName]
        ELSE [error |-> "GIT_OK",
              store |-> Put(Remove(store, ref), new, store[ref]),
              branch |-> new]

\* the branch types of an iteration: GIT_BRANCH_LOCAL, GIT_BRANCH_REMOTE and
\* GIT_BRANCH_LOCAL | GIT_BRANCH_REMOTE
BranchTypes == {"local", "remote", "all"}

\* whether git_branch_next yields the reference under the filter
Matches(n, filter) ==
    \/ filter \in {"local", "all"} /\ IsLocal(n)
    \/ filter \in {"remote", "all"} /\ IsRemote(n)

\* git_branch_iterator_new(iter, repo, filter): the references the cursor
\* will yield, in the store's order
git_branch_iterator_new(store, filter) ==
    SelectSeq(NameOrder, LAMBDA n : n \in DOMAIN store /\ Matches(n, filter))

\* rugged_object_get(repo, rb_target, GIT_OBJ_COMMIT): raises unless the
\* revision names a commit
rugged_object_get(target) == target \in Commits

----------------------------------------------------------------------------
(* The name resolver *)

\* which store lookup of a call fails with an error other than not-found
ResolverFaults == {"none", "local", "remote", "direct"}

\* the arguments a caller can pass where a name or a branch is expected
StrArg(n) == [kind |-> "str", name |-> n]
BranchArg(n) == [kind |-> "branch", name |-> n]
OtherArg == [kind |-> "other", name |-> NoName]

\* rugged_branch_lookup going on to the remote namespace although the local
\* lookup succeeded
lookup_ignoring_local_hit(store, arg, fault) ==
    IF arg.kind = "branch"
    THEN git_reference_lookup(store, UninitPtr, arg.name, fault = "direct")
    ELSE IF arg.kind = "str"
    THEN IF \/ HasPrefix(arg.name, HeadsPrefix)
            \/ HasPrefix(arg.name, RemotesPrefix)
            \/ arg.name = HeadName
         THEN git_reference_lookup(store, UninitPtr, arg.name, fault = "direct")
         ELSE LET local == git_branch_lookup(store, arg.name, HeadsPrefix,
                                             fault = "local")
                  remote == git_branch_lookup(store, arg.name, RemotesPrefix,
                                              fault = "remote")
              IN  IF local.error # "GIT_OK" /\ local.error # "GIT_ENOTFOUND"
                  THEN local
                  ELSE IF remote.error = "GIT_OK" \/ remote.error # "GIT_ENOTFOUND"
                  THEN remote
                  ELSE git_reference_lookup(store, remote.branch,
                                            RefsPrefix \o arg.name,
                                            fault = "direct")
    ELSE [error |-> "TypeError", branch |-> UninitPtr]

\* rugged_branch_lookup trying the remote namespace before the local one
lookup_remote_first(store, arg, fault) ==
    IF arg.kind = "branch"
    THEN git_reference_lookup(store, UninitPtr, arg.name, fault = "direct")
    ELSE IF arg.kind = "str"
    THEN IF \/ HasPrefix(arg.name, HeadsPrefix)
            \/ HasPrefix(arg.name, RemotesPrefix)
            \/ arg.name = HeadName
         THEN git_reference_lookup(store, UninitPtr, arg.name, fault = "direct")
         ELSE LET local == git_branch_lookup(store, arg.name, HeadsPrefix,
                                             fault = "local")
                  remote == git_branch_lookup(store, arg.name, RemotesPrefix,
                                              fault = "remote")
              IN  IF remote.error = "GIT_OK" \/ remote.error # "GIT_ENOTFOUND"
                  THEN remote
                  ELSE IF local.error = "GIT_OK" \/ local.error # "GIT_ENOTFOUND"
                  THEN local
                  ELSE git_reference_lookup(store, local.branch,
                                            RefsPrefix \o arg.name,
                                            fault = "direct")
    ELSE [error |-> "TypeError", branch |-> UninitPtr]

\* rugged_branch_lookup going on to the next namespace after any error of a
\* lookup, not only after GIT_ENOTFOUND
lookup_falling_through(store, arg, fault) ==
    IF arg.kind = "branch"
    THEN git_reference_lookup(store, UninitPtr, arg.name, fault = "direct")
    ELSE IF arg.kind = "str"
    THEN IF \/ HasPrefix(arg.name, HeadsPrefix)
            \/ HasPrefix(arg.name, RemotesPrefix)
            \/ arg.name = HeadName
         THEN git_reference_lookup(store, UninitPtr, arg.name, fault = "direct")
         ELSE LET local == git_branch_lookup(store, arg.name, HeadsPrefix,
                                             fault = "local")
                  remote == git_branch_lookup(store, arg.name, RemotesPrefix,
                                              fault = "remote")
              IN  IF local.error = "GIT_OK"
                  THEN local
                  ELSE IF remote.error = "GIT_OK"
                  THEN remote
                  ELSE git_reference_lookup(store, remote.branch,
                                            RefsPrefix \o arg.name,
                                            fault = "direct")
    ELSE [error |-> "TypeError", branch |-> UninitPtr]

\* rugged_branch_lookup without the verbatim lookup of the strings that
\* begin with refs/heads/ or refs/remotes/ or are HEAD
lookup_prefixed_as_bare(store, arg, fault) ==
    IF arg.kind = "branch"
    THEN git_reference_lookup(store, UninitPtr, arg.name, fault = "direct")
    ELSE IF arg.kind = "str"
    THEN LET local == git_branch_lookup(store, arg.name, HeadsPrefix,
                                        fault = "local")
             remote == git_branch_lookup(store, arg.name, RemotesPrefix,
                                         fault = "remote")
         IN  IF local.error = "GIT_OK" \/ local.error # "GIT_ENOTFOUND"
             THEN local
             ELSE IF remote.error = "GIT_OK" \/ remote.error # "GIT_ENOTFOUND"
             THEN remote
             ELSE git_reference_lookup(store, remote.branch,
                                       RefsPrefix \o arg.name, fault = "direct")
    ELSE [error |-> "TypeError", branch |-> UninitPtr]

\* rugged_branch_lookup without the last lookup, of refs/<name>
lookup_without_raw(store, arg, fault) ==
    IF arg.kind = "branch"
    THEN git_reference_lookup(store, UninitPtr, arg.name, fault = "direct")
    ELSE IF arg.kind = "str"
    THEN IF \/ HasPrefix(arg.name, HeadsPrefix)
            \/ HasPrefix(arg.name, RemotesPrefix)
            \/ arg.name = HeadName
         THEN git_reference_lookup(store, UninitPtr, arg.name, fault = "direct")
         ELSE LET local == git_branch_lookup(store, arg.name, HeadsPrefix,
                                             fault = "local")
                  remote == git_branch_lookup(store, arg.name, RemotesPrefix,
                                              fault = "remote")
              IN  IF local.error = "GIT_OK" \/ local.error # "GIT_ENOTFOUND"
                  THEN local
                  ELSE remote
    ELSE [error |-> "TypeError", branch |-> UninitPtr]

\* rugged_branch_lookup(&branch, repo, rb_name_or_branch), called with branch
\* unassigned: the error code and what branch holds afterwards
rugged_branch_lookup(store, arg, fault) ==
    IF arg.kind = "branch"
    THEN git_reference_lookup(store, UninitPtr, arg.name, fault = "direct")
    ELSE IF arg.kind = "str"
    THEN IF \/ HasPrefix(arg.name, HeadsPrefix)
            \/ HasPrefix(arg.name, RemotesPrefix)
            \/ arg.name = HeadName
         THEN git_reference_lookup(store, UninitPtr, arg.name, fault = "direct")
         ELSE LET local == git_branch_lookup(store, arg.name, HeadsPrefix,
                                             fault = "local")
                  remote == git_branch_lookup(store, arg.name, RemotesPrefix,
                                              fault = "remote")
              IN  IF local.error = "GIT_OK" \/ local.error # "GIT_ENOTFOUND"
                  THEN local
                  ELSE IF remote.error = "GIT_OK" \/ remote.error # "GIT_ENOTFOUND"
                  THEN remote
                  ELSE git_reference_lookup(store, remote.branch,
                                            RefsPrefix \o arg.name,
                                            fault = "direct")
    ELSE [error |-> "TypeError", branch |-> UninitPtr]

----------------------------------------------------------------------------
(* The collection's methods: what a call returns or raises, and the store
   it leaves *)

\* which step of a call fails in the store: a lookup of the resolver, or the
\* write ("store") of create, delete and move
Faults == ResolverFaults \cup {"store"}

\* the optional force argument: nil (not given), true, false
ForceArgs == {"nil", "true", "false"}

\* force set whenever the argument is given, whatever its value
force_when_given(rb_force) == rb_force # "nil"

\* if (!NIL_P(rb_force)) force = rugged_parse_bool(rb_force), force = 0 before
ParseForce(rb_force) == IF rb_force = "nil" THEN FALSE ELSE rb_force = "true"

\* what git_reference_free(branch) can do when branch was never assigned
FreeOutcomes == {"benign", "crash"}

Returned(ret, store) ==
    [ret |-> ret, err |-> "none", branch |-> NoName, target |-> "none",
     store |-> store]

\* rugged_branch_new(owner, ref): the Rugged::Branch wrapping the reference
rugged_branch_new(ref, store) ==
    [ret |-> "branch", err |-> "none", branch |-> ref, target |-> store[ref],
     store |-> store]

\* rugged_exception_check(error) with error < 0, rb_raise: the call raises
Raised(err, store) ==
    [ret |-> "raise", err |-> err, branch |-> NoName, target |-> "none",
     store |-> store]

Crashed(store) ==
    [ret |-> "crash", err |-> "none", branch |-> NoName, target |-> "none",
     store |-> store]

\* rb_git_branch_collection_create never passing force on
create_without_force(store, rb_name, rb_target, rb_force, fault) ==
    IF rb_name.kind # "str" THEN Raised("TypeError", store)
    ELSE IF ~rugged_object_get(rb_target) THEN Raised("InvalidTarget", store)
    ELSE LET r == git_branch_create(store, rb_name.name, rb_target, FALSE,
                                    fault = "store")
         IN  IF r.error # "GIT_OK" THEN Raised(r.error, store)
             ELSE rugged_branch_new(r.branch, r.store)

rb_git_branch_collection_create(store, rb_name, rb_target, rb_force, fault) ==
    IF rb_name.kind # "str" THEN Raised("TypeError", store)
    ELSE IF ~rugged_object_get(rb_target) THEN Raised("InvalidTarget", store)
    ELSE LET r == git_branch_create(store, rb_name.name, rb_target,
                                    ParseForce(rb_force), fault = "store")
         IN  IF r.error # "GIT_OK" THEN Raised(r.error, store)
             ELSE rugged_branch_new(r.branch, r.store)

rb_git_branch_collection_aref(store, rb_name, fault) ==
    IF rb_name.kind # "str" THEN Raised("TypeError", store)
    ELSE LET r == rugged_branch_lookup(store, rb_name, fault)
         IN  IF r.error = "GIT_ENOTFOUND" THEN Returned("nil", store)
             ELSE IF r.error # "GIT_OK" THEN Raised(r.error, store)
             ELSE rugged_branch_new(r.branch.name, store)

rb_git_branch_collection_exist_p(store, rb_name, fault, free) ==
    IF rb_name.kind # "str" THEN Raised("TypeError", store)
    ELSE LET r == rugged_branch_lookup(store, rb_name, fault)
         IN  IF r.branch.state = "uninit" /\ free = "crash" THEN Crashed(store)
             ELSE IF r.error = "GIT_ENOTFOUND" THEN Returned("false", store)
             ELSE IF r.error # "GIT_OK" THEN Raised(r.error, store)
             ELSE Returned("true", store)

\* rb_git_branch_collection_delete freeing the reference without deleting it
delete_without_removing(store, rb_name_or_branch, fault) ==
    LET r == rugged_branch_lookup(store, rb_name_or_branch, fault)
    IN  IF r.error # "GIT_OK" THEN Raised(r.error, store)
        ELSE Returned("nil", store)

\* rb_git_branch_collection_delete returning nil on GIT_ENOTFOUND, as
\* rb_git_branch_collection_aref does
delete_absorbing_notfound(store, rb_name_or_branch, fault) ==
    LET r == rugged_branch_lookup(store, rb_name_or_branch, fault)
    IN  IF r.error = "GIT_ENOTFOUND" THEN Returned("nil", store)
        ELSE IF r.error # "GIT_OK" THEN Raised(r.error, store)
        ELSE LET d == git_branch_delete(store, r.branch.name, fault = "store")
             IN  IF d.error # "GIT_OK" THEN Raised(d.error, store)
                 ELSE Returned("nil", d.store)

rb_git_branch_collection_delete(store, rb_name_or_branch, fault) ==
    LET r == rugged_branch_lookup(store, rb_name_or_branch, fault)
    IN  IF r.error # "GIT_OK" THEN Raised(r.error, store)
        ELSE LET d == git_branch_delete(store, r.branch.name, fault = "store")
             IN  IF d.error # "GIT_OK" THEN Raised(d.error, store)
                 ELSE Returned("nil", d.store)

\* rb_git_branch_collection_move never passing force on
move_without_force(store, rb_old, rb_new, rb_force, fault) ==
    IF rb_new.kind # "str" THEN Raised("TypeError", store)
    ELSE LET r == rugged_branch_lookup(store, rb_old, fault)
         IN  IF r.error # "GIT_OK" THEN Raised(r.error, store)
             ELSE LET m == git_branch_move(store, r.branch.name, rb_new.name,
                                           FALSE, fault = "store")
                  IN  IF m.error # "GIT_OK" THEN Raised(m.error, store)
                      ELSE rugged_branch_new(m.branch, m.store)

\* rb_git_branch_collection_move wrapping old_branch instead of new_branch
move_returning_old(store, rb_old, rb_new, rb_force, fault) ==
    IF rb_new.kind # "str" THEN Raised("TypeError", store)
    ELSE LET r == rugged_branch_lookup(store, rb_old, fault)
         IN  IF r.error # "GIT_OK" THEN Raised(r.error, store)
             ELSE LET m == git_branch_move(store, r.branch.name, rb_new.name,
                                           ParseForce(rb_force), fault = "store")
                  IN  IF m.error # "GIT_OK" THEN Raised(m.error, store)
                      ELSE [ret |-> "branch", err |-> "none",
                            branch |-> r.branch.name,
                            target |-> store[r.branch.name], store |-> m.store]

rb_git_branch_collection_move(store, rb_old, rb_new, rb_force, fault) ==
    IF rb_new.kind # "str" THEN Raised("TypeError", store)
    ELSE LET r == rugged_branch_lookup(store, rb_old, fault)
         IN  IF r.error # "GIT_OK" THEN Raised(r.error, store)
             ELSE LET m == git_branch_move(store, r.branch.name, rb_new.name,
                                           ParseForce(rb_force), fault = "store")
                  IN  IF m.error # "GIT_OK" THEN Raised(m.error, store)
                      ELSE rugged_branch_new(m.branch, m.store)

\* what a call does with the git_reference of its lookup: how many it
\* obtained, how many it passed to git_reference_free, how many it gave to a
\* Rugged::Branch, and whether it passed git_reference_free a pointer that
\* no lookup had assigned
Handles(obtained, released, wrapped, wild) ==
    [obtained |-> obtained, released |-> released, wrapped |-> wrapped,
     wild |-> wild]

Got(r) == IF r.error = "GIT_OK" THEN 1 ELSE 0

\* rb_git_branch_collection_aref: branch goes to rugged_branch_new
aref_handles(store, rb_name, fault) ==
    IF rb_name.kind # "str" THEN Handles(0, 0, 0, FALSE)
    ELSE LET r == rugged_branch_lookup(store, rb_name, fault)
         IN  Handles(Got(r), 0, Got(r), FALSE)

\* rb_git_branch_collection_exist_p: git_reference_free(branch) whatever the
\* lookup returned
exist_p_handles(store, rb_name, fault) ==
    IF rb_name.kind # "str" THEN Handles(0, 0, 0, FALSE)
    ELSE LET r == rugged_branch_lookup(store, rb_name, fault)
         IN  Handles(Got(r), Got(r), 0, r.branch.state = "uninit")

\* rb_git_branch_collection_delete: git_reference_free(branch) after
\* git_branch_delete, reached only when the lookup succeeded
delete_handles(store, rb_name_or_branch, fault) ==
    LET r == rugged_branch_lookup(store, rb_name_or_branch, fault)
    IN  Handles(Got(r), Got(r), 0, FALSE)

\* rb_git_branch_collection_move: git_reference_free(old_branch) after
\* git_branch_move, reached only when the lookup succeeded
move_handles(store, rb_old, rb_new, fault) ==
    IF rb_new.kind # "str" THEN Handles(0, 0, 0, FALSE)
    ELSE LET r == rugged_branch_lookup(store, rb_old, fault)
         IN  Handles(Got(r), Got(r), 0, FALSE)

\* each_branch: every git_branch_next that returned GIT_OK gave a
\* reference; each gives it to rugged_branch_new, each_name only reads its
\* shorthand
each_branch_handles(i) ==
    Handles(Len(i.yielded), 0, IF i.names_only THEN 0 ELSE Len(i.yielded),
            FALSE)

\* the optional filter argument: nil (not given), :local, :remote, and
\* anything else
FilterArgs == {"nil", "local", "remote", "other"}

\* parse_branch_type(rb_filter): the branch type, or "TypeError"
parse_branch_type(rb_filter) ==
    IF rb_filter = "local" THEN "local"
    ELSE IF rb_filter = "remote" THEN "remote"
    ELSE "TypeError"

\* each_branch up to the loop: filter is GIT_BRANCH_LOCAL | GIT_BRANCH_REMOTE
\* unless a filter is given
EachFilter(rb_filter) ==
    IF rb_filter = "nil" THEN "all" ELSE parse_branch_type(rb_filter)

\* each_name handing the block the reference as each does
yield_canonical(names_only, ref) == ref

\* what the block is handed for a reference
Yielded(names_only, ref) == IF names_only THEN Shorthand(ref) ELSE ref

\* what git_branch_next can do on a cursor that was never assigned
WildNext == {"crash", "GIT_ERROR", "GIT_ITEROVER"}

----------------------------------------------------------------------------
(* The state machine: a caller making one call after another *)

\* the arguments the caller of the model passes
NameArgs == {StrArg(n) : n \in CallNames} \cup {OtherArg}
MutateArgs == {StrArg(n) : n \in MutateNames} \cup {OtherArg}
CreateArgs == {StrArg(n) : n \in CreateNames} \cup {OtherArg}
MoveArgs == {StrArg(n) : n \in MoveNames} \cup {OtherArg}

\* a name or a branch as the caller passes it: the argument, and the
\* Rugged::Branch object it is, if it is one
NoBranch == [name |-> NoName, deleted |-> FALSE]
Passed(args) ==
    {[arg |-> a, object |-> NoBranch] : a \in args}
        \cup {[arg |-> BranchArg(b.name), object |-> b] : b \in held}

Idle == [pc |-> "idle"]

\* the target refs/heads/<name> has in the store, "none" if it is not there
LocalTarget(store, rb_name) ==
    IF rb_name.kind = "str" /\ HeadsPrefix \o rb_name.name \in DOMAIN store
    THEN store[HeadsPrefix \o rb_name.name]
    ELSE "none"

\* the record of a call: the method, its first argument, whether that was a
\* Rugged::Branch that delete has removed the branch of, the force flag of
\* create and move, the target that the local branch create or move writes
\* had before the call, and what the call returned or raised
Call(op, arg, stale, force, old, o) ==
    [op |-> op, arg |-> arg, stale |-> stale, force |-> force, old |-> old,
     ret |-> o.ret, err |-> o.err, branch |-> o.branch, btarget |-> o.target]

NoCall ==
    [op |-> "none", arg |-> OtherArg, stale |-> FALSE, force |-> FALSE,
     old |-> "none",
     ret |-> "none", err |-> "none", branch |-> NoName, btarget |-> "none"]

\* a fault is drawn only where the call reaches the step that fails
Reached(fault, o, unfaulted) == fault = "none" \/ o # unfaulted

\* the caller keeps the Rugged::Branch a call returned
Keep(h, o) ==
    IF o.ret = "branch" /\ o.branch \in KeptNames /\ Cardinality(h) < MaxHeld
    THEN h \cup {[name |-> o.branch, deleted |-> FALSE]}
    ELSE h

\* the Rugged::Branch objects after delete was called with p and had the
\* outcome o: delete has removed the branch of the one passed in
MarkDeleted(h, p, o) ==
    IF p.arg.kind = "branch" /\ o.ret = "nil"
    THEN (h \ {p.object}) \cup {[p.object EXCEPT !.deleted = TRUE]}
    ELSE h

Init ==
    /\ refs = [n \in {HeadName, <<"refs", "heads", "m">>,
                       <<"refs", "remotes", "x">>, <<"refs", "tags", "x">>}
                 |-> IF n = HeadName THEN HeadTarget
                     ELSE IF n = <<"refs", "remotes", "x">> THEN "c2"
                     ELSE "c1"]
    /\ held = {}
    /\ last = NoCall
    /\ it = Idle

Create ==
    /\ it.pc = "idle"
    /\ \E rb_name \in CreateArgs, rb_target \in Commits \cup {BadTarget},
          rb_force \in ForceArgs, fault \in {"none", "store"} :
          LET o == rb_git_branch_collection_create(refs, rb_name, rb_target,
                                                   rb_force, fault)
          IN  /\ Reached(fault, o,
                         rb_git_branch_collection_create(refs, rb_name, rb_target,
                                                         rb_force, "none"))
              /\ refs' = o.store
              /\ held' = Keep(held, o)
              /\ last' = Call("create", rb_name, FALSE, ParseForce(rb_force),
                              LocalTarget(refs, rb_name), o)
    /\ UNCHANGED it

Aref ==
    /\ it.pc = "idle"
    /\ \E p \in Passed(NameArgs), fault \in ResolverFaults :
          LET o == rb_git_branch_collection_aref(refs, p.arg, fault)
          IN  /\ Reached(fault, o,
                         rb_git_branch_collection_aref(refs, p.arg, "none"))
              /\ refs' = o.store
              /\ held' = Keep(held, o)
              /\ last' = Call("aref", p.arg, p.object.deleted, FALSE, "none", o)
    /\ UNCHANGED it

ExistP ==
    /\ it.pc = "idle"
    /\ \E p \in Passed(NameArgs), fault \in ResolverFaults,
          free \in FreeOutcomes :
          LET o == rb_git_branch_collection_exist_p(refs, p.arg, fault, free)
          IN  /\ Reached(fault, o,
                         rb_git_branch_collection_exist_p(refs, p.arg, "none",
                                                          free))
              /\ Reached(IF free = "benign" THEN "none" ELSE free, o,
                         rb_git_branch_collection_exist_p(refs, p.arg, fault,
                                                          "benign"))
              /\ refs' = o.store
              /\ last' = Call("exist_p", p.arg, p.object.deleted, FALSE, "none",
                              o)
    /\ UNCHANGED <<held, it>>

Delete ==
    /\ it.pc = "idle"
    /\ \E p \in Passed(MutateArgs), fault \in Faults :
          LET o == rb_git_branch_collection_delete(refs, p.arg, fault)
          IN  /\ Reached(fault, o,
                         rb_git_branch_collection_delete(refs, p.arg, "none"))
              /\ refs' = o.store
              /\ held' = MarkDeleted(held, p, o)
              /\ last' = Call("delete", p.arg, p.object.deleted, FALSE, "none",
                              o)
    /\ UNCHANGED it

Move ==
    /\ it.pc = "idle"
    /\ \E p \in Passed(MutateArgs), rb_new \in MoveArgs,
          rb_force \in ForceArgs, fault \in Faults :
          LET o == rb_git_branch_collection_move(refs, p.arg, rb_new, rb_force,
                                                 fault)
          IN  /\ Reached(fault, o,
                         rb_git_branch_collection_move(refs, p.arg, rb_new,
                                                       rb_force, "none"))
              /\ refs' = o.store
              /\ held' = Keep(held, o)
              /\ last' = Call("move", p.arg, p.object.deleted,
                              ParseForce(rb_force), LocalTarget(refs, rb_new),
                              o)
    /\ UNCHANGED it

FilterArg(rb_filter) == [kind |-> "filter", name |-> <<rb_filter>>]

EachOp(names_only) == IF names_only THEN "each_name" ELSE "each"

\* each_branch from its entry to the loop
Each ==
    /\ it.pc = "idle"
    /\ \E names_only \in BOOLEAN, rb_filter \in FilterArgs, block \in BOOLEAN,
          opens \in BOOLEAN :
          IF ~block
          THEN /\ last' = Call(EachOp(names_only), FilterArg(rb_filter), FALSE,
                               FALSE, "none",
                               Returned("enum", refs))
               /\ it' = it
          ELSE IF EachFilter(rb_filter) = "TypeError"
          THEN /\ last' = Call(EachOp(names_only), FilterArg(rb_filter), FALSE,
                               FALSE, "none",
                               Raised("TypeError", refs))
               /\ it' = it
          ELSE /\ last' = Call(EachOp(names_only), FilterArg(rb_filter), FALSE,
                               FALSE, "none",
                               Returned("running", refs))
               /\ it' = [pc |-> "loop", names_only |-> names_only,
                         filter |-> EachFilter(rb_filter),
                         iter |-> IF opens THEN "open" ELSE "uninit",
                         cursor |-> IF opens
                                    THEN git_branch_iterator_new(
                                             refs, EachFilter(rb_filter))
                                    ELSE <<>>,
                         error |-> IF opens THEN "GIT_OK" ELSE "GIT_ERROR",
                         exception |-> FALSE, yielded |-> <<>>,
                         advanced |-> 0, released |-> 0,
                         ret |-> "running", err |-> "none"]
    /\ UNCHANGED <<refs, held>>

\* one evaluation of the loop condition, with error = git_branch_next(...),
\* and of the body when it is true
EachNext ==
    /\ it.pc = "loop"
    /\ IF it.exception
       THEN it' = [it EXCEPT !.pc = "free"]
       ELSE IF it.iter = "uninit"
       THEN \E wild \in WildNext :
               IF wild = "crash"
               THEN it' = [it EXCEPT !.pc = "done", !.ret = "crash",
                                     !.advanced = @ + 1]
               ELSE it' = [it EXCEPT !.pc = "free", !.error = wild,
                                     !.advanced = @ + 1]
       ELSE \E fails \in BOOLEAN, raises \in BOOLEAN :
               IF fails
               THEN it' = [it EXCEPT !.pc = "free", !.error = "GIT_ERROR",
                                     !.advanced = @ + 1]
               ELSE IF it.cursor = <<>>
               THEN it' = [it EXCEPT !.pc = "free", !.error = "GIT_ITEROVER",
                                     !.advanced = @ + 1]
               ELSE it' = [it EXCEPT !.error = "GIT_OK",
                                     !.advanced = @ + 1,
                                     !.cursor = Tail(it.cursor),
                                     !.yielded = Append(it.yielded,
                                         Yielded(it.names_only, Head(it.cursor))),
                                     !.exception = raises]
    /\ UNCHANGED <<refs, held, last>>

\* each_branch after the loop without rb_jump_tag: the block's exception is
\* dropped
EachEnd_without_jump ==
    /\ it.pc = "free"
    /\ \E free \in FreeOutcomes :
          IF it.iter = "uninit" /\ free = "crash"
          THEN it' = [it EXCEPT !.pc = "done", !.ret = "crash",
                                !.released = @ + 1]
          ELSE IF it.error # "GIT_ITEROVER" /\ it.error # "GIT_OK"
          THEN it' = [it EXCEPT !.pc = "done", !.ret = "raise", !.err = it.error,
                                !.released = @ + 1,
                                !.iter = IF it.iter = "open" THEN "freed" ELSE @]
          ELSE it' = [it EXCEPT !.pc = "done", !.ret = "nil",
                                !.released = @ + 1,
                                !.iter = IF it.iter = "open" THEN "freed" ELSE @]
    /\ UNCHANGED <<refs, held, last>>

\* each_branch after the loop: git_branch_iterator_free(iter), then the
\* block's exception, the store's error, or nil
EachEnd ==
    /\ it.pc = "free"
    /\ \E free \in FreeOutcomes :
          IF it.iter = "uninit" /\ free = "crash"
          THEN it' = [it EXCEPT !.pc = "done", !.ret = "crash",
                                !.released = @ + 1]
          ELSE IF it.exception
          THEN it' = [it EXCEPT !.pc = "done", !.ret = "raise",
                                !.err = "BlockError", !.released = @ + 1,
                                !.iter = IF it.iter = "open" THEN "freed" ELSE @]
          ELSE IF it.error # "GIT_ITEROVER" /\ it.error # "GIT_OK"
          THEN it' = [it EXCEPT !.pc = "done", !.ret = "raise", !.err = it.error,
                                !.released = @ + 1,
                                !.iter = IF it.iter = "open" THEN "freed" ELSE @]
          ELSE it' = [it EXCEPT !.pc = "done", !.ret = "nil",
                                !.released = @ + 1,
                                !.iter = IF it.iter = "open" THEN "freed" ELSE @]
    /\ UNCHANGED <<refs, held, last>>

\* the call is over: the caller has its result
EachReturn ==
    /\ it.pc = "done"
    /\ last' = [last EXCEPT !.ret = it.ret, !.err = it.err]
    /\ it' = Idle
    /\ UNCHANGED <<refs, held>>

Next ==
    \/ Create \/ Aref \/ ExistP \/ Delete \/ Move
    \/ Each \/ EachNext \/ EachEnd \/ EachReturn

Spec == Init /\ [][Next]_vars

TypeOK ==
    /\ DOMAIN refs \subseteq AllNames
    /\ Cardinality(held) <= MaxHeld

----------------------------------------------------------------------------
(* Properties.  Those over "every call" apply the methods to the store of
   every reachable state, with every argument of the sets below *)

\* a name the resolver does not look up verbatim
BareName(n) ==
    /\ ~HasPrefix(n, HeadsPrefix)
    /\ ~HasPrefix(n, RemotesPrefix)
    /\ n # HeadName

\* the references the resolver tries for a string, in its order
Candidates(n) ==
    IF BareName(n)
    THEN <<HeadsPrefix \o n, RemotesPrefix \o n, RefsPrefix \o n>>
    ELSE <<n>>

CandidateSet(n) == {Candidates(n)[i] : i \in 1..Len(Candidates(n))}

\* branches.create(n, c, f), branches[n], branches.exist?(n),
\* branches.delete(a) and branches.move(a, n2, f) when the store does not fail
DoCreate(store, n, c, f) ==
    rb_git_branch_collection_create(store, StrArg(n), c, f, "none")
DoLookup(store, n) == rb_git_branch_collection_aref(store, StrArg(n), "none")
DoExists(store, n, free) ==
    rb_git_branch_collection_exist_p(store, StrArg(n), "none", free)
DoDelete(store, a) == rb_git_branch_collection_delete(store, a, "none")
DoMove(store, a, n2, f) ==
    rb_git_branch_collection_move(store, a, StrArg(n2), f, "none")

\* the names and the name-or-branch arguments the properties range over
AnyNames == LookupNames \cup NewNames
AnyArgs == {StrArg(n) : n \in AnyNames} \cup {BranchArg(n) : n \in AllNames}

\* the name n of the branch an argument of delete or move stands for: the
\* string itself, or the shorthand of the Rugged::Branch
NameOf(a) == IF a.kind = "branch" THEN Shorthand(a.name) ELSE a.name

\* the reference an argument resolves to in the store
Resolved(store, a) == rugged_branch_lookup(store, a, "none").branch.name

\* create(n, c) succeeded in store and lookup(n), exists(n) then find the
\* branch it created
CreatedIsFound(store, n, c) ==
    /\ DoLookup(store, n).ret = "branch"
    /\ DoLookup(store, n).branch = HeadsPrefix \o n
    /\ DoLookup(store, n).target = c
    /\ \A free \in FreeOutcomes : DoExists(store, n, free).ret = "true"

\* C1 as stated: after any successful create(n, c), lookup(n) returns the
\* branch refs/heads/n with target c and exists(n) is true.
C1_AnyName ==
    (last.op = "create" /\ last.ret = "branch")
        => CreatedIsFound(refs, last.arg.name, last.btarget)

\* C1: for a name n that does not begin with refs/heads/ or refs/remotes/
\* and is not HEAD, after create(n, c) succeeds lookup(n) returns the branch
\* refs/heads/n with target c and exists(n) is true, whatever else the
\* store holds.
C1_CreateThenLookup ==
    /\ (last.op = "create" /\ last.ret = "branch" /\ BareName(last.arg.name))
           => CreatedIsFound(refs, last.arg.name, last.btarget)
    /\ \A n \in AnyNames, c \in Commits, f \in ForceArgs :
           (BareName(n) /\ DoCreate(refs, n, c, f).ret = "branch")
               => CreatedIsFound(DoCreate(refs, n, c, f).store, n, c)

C1_Witness ==
    /\ last.op = "create" /\ last.ret = "branch"
    /\ last.arg = StrArg(<<"x">>)
    /\ <<"refs", "remotes", "x">> \in DOMAIN refs
    /\ DoLookup(refs, <<"x">>).branch = <<"refs", "heads", "x">>

\* C2: when refs/heads/n and refs/remotes/n both exist, the bare name n
\* resolves to refs/heads/n: lookup returns it, exists is true, delete
\* removes it and move renames it, and the remote branch stays as it is.
C2_LocalFirst ==
    \A n \in AnyNames :
        (/\ BareName(n)
         /\ HeadsPrefix \o n \in DOMAIN refs
         /\ RemotesPrefix \o n \in DOMAIN refs)
        => /\ Resolved(refs, StrArg(n)) = HeadsPrefix \o n
           /\ DoLookup(refs, n).branch = HeadsPrefix \o n
           /\ DoExists(refs, n, "benign").ret = "true"
           /\ DoDelete(refs, StrArg(n)).ret = "nil"
           /\ DoDelete(refs, StrArg(n)).store = Remove(refs, HeadsPrefix \o n)
           /\ \A n2 \in NewNames :
                 LET o == DoMove(refs, StrArg(n), n2, "true")
                 IN  /\ o.ret = "branch"
                     /\ o.target = refs[HeadsPrefix \o n]
                     /\ RemotesPrefix \o n \in DOMAIN o.store
                     /\ o.store[RemotesPrefix \o n] = refs[RemotesPrefix \o n]
                     /\ (n2 # n => HeadsPrefix \o n \notin DOMAIN o.store)

C2_Witness ==
    /\ last.op = "aref" /\ last.arg = StrArg(<<"x">>)
    /\ last.branch = <<"refs", "heads", "x">>
    /\ <<"refs", "remotes", "x">> \in DOMAIN refs
    /\ refs[<<"refs", "remotes", "x">>] # refs[<<"refs", "heads", "x">>]

\* what lookup(n) returns in the store: absent exactly when none of the
\* references the resolver tries for n is there
AbsentIffNoCandidate(store, n) ==
    DoLookup(store, n).ret = "nil" <=> CandidateSet(n) \cap DOMAIN store = {}

\* C3 as stated: after any successful delete of the branch named n,
\* lookup(n) returns absent.
C3_AlwaysAbsent ==
    (last.op = "delete" /\ last.ret = "nil")
        => DoLookup(refs, NameOf(last.arg)).ret = "nil"

\* C3: after delete(b) or delete(n) succeeds, the reference it resolved to
\* is gone: lookup of its qualified name returns absent and lookup(n) does
\* not return it; lookup(n) returns absent unless another reference that n
\* resolves to (refs/heads/n, refs/remotes/n or refs/n) still exists.
C3_DeleteThenLookup ==
    /\ (last.op = "delete" /\ last.ret = "nil")
           => AbsentIffNoCandidate(refs, NameOf(last.arg))
    /\ \A a \in AnyArgs :
           LET o == DoDelete(refs, a)
               r == Resolved(refs, a)
           IN  o.ret = "nil"
               => /\ r \in DOMAIN refs
                  /\ r \notin DOMAIN o.store
                  /\ DoLookup(o.store, r).ret = "nil"
                  /\ DoLookup(o.store, NameOf(a)).branch # r
                  /\ AbsentIffNoCandidate(o.store, NameOf(a))

C3_Witness ==
    /\ last.op = "delete" /\ last.ret = "nil"
    /\ last.arg = StrArg(<<"x">>)
    /\ <<"refs", "heads", "x">> \notin DOMAIN refs
    /\ DoLookup(refs, <<"x">>).branch = <<"refs", "remotes", "x">>

\* C4: once delete has removed the branch of a Rugged::Branch it was called
\* with, every later delete or move called with that object raises.
C4_DeletedHandleRaises ==
    (last.op \in {"delete", "move"} /\ last.stale) => last.ret = "raise"

\* C5 as stated: after move(n, n2, force=false) succeeds for any n and n2,
\* lookup(n) is absent and lookup(n2) is a branch with the target the
\* branch named n had, which is the target of the branch move returned.
C5_AnyNames ==
    (last.op = "move" /\ last.ret = "branch" /\ ~last.force
        /\ last.arg.kind = "str")
    => /\ DoLookup(refs, last.arg.name).ret = "nil"
       /\ DoLookup(refs, Shorthand(last.branch)).ret = "branch"
       /\ DoLookup(refs, Shorthand(last.branch)).target = last.btarget

\* C5: after move(n, n2, force=false) succeeds, the reference n resolved to
\* no longer exists and move returned refs/heads/n2 with that reference's
\* target t; when n2 does not begin with refs/heads/ or refs/remotes/ and
\* is not HEAD, lookup(n2) returns refs/heads/n2 with target t; lookup(n)
\* returns absent unless a reference that n resolves to exists after the
\* move.
C5_MoveThenLookup ==
    \A n \in AnyNames, n2 \in AnyNames, f \in {"nil", "false"} :
        LET o == DoMove(refs, StrArg(n), n2, f)
            r == Resolved(refs, StrArg(n))
        IN  o.ret = "branch"
            => /\ r \in DOMAIN refs
               /\ r \notin DOMAIN o.store
               /\ DoLookup(o.store, r).ret = "nil"
               /\ o.branch = HeadsPrefix \o n2
               /\ o.target = refs[r]
               /\ o.store[HeadsPrefix \o n2] = refs[r]
               /\ AbsentIffNoCandidate(o.store, n)
               /\ BareName(n2)
                     => /\ DoLookup(o.store, n2).branch = HeadsPrefix \o n2
                        /\ DoLookup(o.store, n2).target = refs[r]

C5_Witness ==
    /\ last.op = "move" /\ last.ret = "branch" /\ ~last.force
    /\ last.arg = StrArg(<<"x">>)
    /\ last.branch = <<"refs", "heads", "y">>
    /\ DoLookup(refs, <<"y">>).target = last.btarget
    /\ DoLookup(refs, <<"x">>).ret = "nil"

\* C6: create(n, c, force=false) when refs/heads/n exists raises
\* AlreadyExists, returns no branch and leaves every reference as it was.
C6_CreateExisting ==
    /\ \A n \in AnyNames, c \in Commits, f \in {"nil", "false"} :
           LET o == DoCreate(refs, n, c, f)
           IN  HeadsPrefix \o n \in DOMAIN refs
               => /\ o.ret = "raise"
                  /\ o.err = "GIT_EEXISTS"
                  /\ o.branch = NoName
                  /\ o.store = refs
    /\ (last.op = "create" /\ last.err = "GIT_EEXISTS")
           => /\ last.ret = "raise"
              /\ last.old # "none"
              /\ refs[HeadsPrefix \o last.arg.name] = last.old

C6_Witness ==
    /\ last.op = "create" /\ last.err = "GIT_EEXISTS" /\ ~last.force
    /\ last.old = "c1"
    /\ refs[HeadsPrefix \o last.arg.name] = "c1"

\* C7: create(n, c, force=true) when refs/heads/n exists succeeds, and
\* afterwards refs/heads/n points to c and every other reference is as it
\* was.
C7_ForceCreate ==
    /\ \A n \in AnyNames, c \in Commits :
           LET o == DoCreate(refs, n, c, "true")
           IN  HeadsPrefix \o n \in DOMAIN refs
               => /\ o.ret = "branch"
                  /\ o.branch = HeadsPrefix \o n
                  /\ o.target = c
                  /\ DOMAIN o.store = DOMAIN refs
                  /\ o.store[HeadsPrefix \o n] = c
                  /\ \A other \in DOMAIN refs \ {HeadsPrefix \o n} :
                        o.store[other] = refs[other]
    /\ (last.op = "create" /\ last.ret = "branch")
           => refs[HeadsPrefix \o last.arg.name] = last.btarget

C7_Witness ==
    /\ last.op = "create" /\ last.ret = "branch" /\ last.force
    /\ last.old = "c1" /\ last.btarget = "c2"
    /\ refs[HeadsPrefix \o last.arg.name] = "c2"

\* the references an iteration with the filter is to yield
Expected(store, filter) == {n \in DOMAIN store : Matches(n, filter)}

\* the block was handed each of the references once, and nothing else
YieldedOnce(seq, names_only, expected) ==
    /\ Len(seq) = Cardinality(expected)
    /\ {seq[i] : i \in 1..Len(seq)} = {Yielded(names_only, n) : n \in expected}

\* C8: an each / each_name call that returns nil has handed the block
\* exactly the references under refs/heads/ (filter :local), under
\* refs/remotes/ (filter :remote) or under either (no filter), each once.
C8_CompleteIteration ==
    (it.pc = "done" /\ it.ret = "nil")
        => YieldedOnce(it.yielded, it.names_only, Expected(refs, it.filter))

\* the same for the calls whose cursor git_branch_iterator_new did open
C8_OpenedIteration ==
    (it.pc = "done" /\ it.ret = "nil" /\ it.iter = "freed")
        => YieldedOnce(it.yielded, it.names_only, Expected(refs, it.filter))

C10_NotFoundRaises ==
    /\ \A a \in AnyArgs :
           rugged_branch_lookup(refs, a, "none").error = "GIT_ENOTFOUND"
           => /\ DoDelete(refs, a).ret = "raise"
              /\ DoDelete(refs, a).err = "GIT_ENOTFOUND"
              /\ DoDelete(refs, a).store = refs
              /\ \A n2 \in AnyNames, f \in ForceArgs :
                    /\ DoMove(refs, a, n2, f).ret = "raise"
                    /\ DoMove(refs, a, n2, f).err = "GIT_ENOTFOUND"
                    /\ DoMove(refs, a, n2, f).store = refs
    /\ (last.op \in {"delete", "move"} /\ last.err = "GIT_ENOTFOUND")
           => /\ last.ret = "raise"
              /\ CandidateSet(last.arg.name) \cap DOMAIN refs = {}

C10_Witness ==
    /\ last.op = "delete" /\ last.ret = "raise"
    /\ last.err = "GIT_ENOTFOUND"
    /\ last.arg = StrArg(<<"x">>)
    /\ <<"refs", "remotes", "x">> \notin DOMAIN refs

\* C11: the cursor an each / each_name call opened is released exactly once,
\* when the loop is over and before the call returns or raises, and a
\* cursor that git_branch_iterator_new did not open is neither advanced nor
\* released.
C11_CursorReleasedOnce ==
    it.pc # "idle"
    => /\ it.iter = "uninit" => (it.advanced = 0 /\ it.released = 0)
       /\ it.iter # "uninit"
             => /\ it.released = (IF it.pc = "done" THEN 1 ELSE 0)
                /\ it.iter = "freed" <=> it.pc = "done"

\* the same for the calls whose cursor git_branch_iterator_new did open
C11_OpenedCursor ==
    (it.pc # "idle" /\ it.iter # "uninit")
    => /\ it.released = (IF it.pc = "done" THEN 1 ELSE 0)
       /\ it.iter = "freed" <=> it.pc = "done"

\* the store reported an error other than end-of-sequence to the call in
\* progress: git_branch_iterator_new did not open the cursor, or
\* git_branch_next failed
StoreFailed(i) == i.iter = "uninit" \/ i.error = "GIT_ERROR"

\* C12: an each / each_name call to which the store reported an error other
\* than end-of-sequence, when the cursor was opened or advanced, raises that
\* error when it comes back to the caller, never returns nil, and has
\* yielded nothing if the cursor was not opened.
C12_StoreErrorRaised ==
    (it.pc = "done" /\ it.ret # "crash" /\ StoreFailed(it))
    => /\ it.ret = "raise"
       /\ it.err = "GIT_ERROR"
       /\ it.iter = "uninit" => it.yielded = <<>>

\* the same for an error of git_branch_next on a cursor that was opened
C12_AdvanceErrorRaised ==
    (it.pc = "done" /\ it.iter = "freed" /\ it.error = "GIT_ERROR")
    => (it.ret = "raise" /\ it.err = "GIT_ERROR")

\* the resolver's result for the string n when the lookup named by fault
\* fails with an error other than not-found
Faulted(store, n, fault) == rugged_branch_lookup(store, StrArg(n), fault)

\* the resolver returned the error and no reference
IsError(r) == r.error = "GIT_ERROR" /\ r.branch.state # "set"

\* C13: when a lookup step of the resolver that is reached (the local one;
\* the remote one when the local branch is absent; the raw one when both
\* are absent; the verbatim one) returns an error other than not-found, the
\* resolver returns that error and no reference, whatever references the
\* later steps would have found; lookup then raises it.
C13_ErrorAborts ==
    /\ \A n \in AnyNames :
           IF BareName(n)
           THEN /\ IsError(Faulted(refs, n, "local"))
                /\ HeadsPrefix \o n \notin DOMAIN refs
                      => IsError(Faulted(refs, n, "remote"))
                /\ (/\ HeadsPrefix \o n \notin DOMAIN refs
                    /\ RemotesPrefix \o n \notin DOMAIN refs)
                      => IsError(Faulted(refs, n, "direct"))
           ELSE IsError(Faulted(refs, n, "direct"))
    /\ \A a \in AnyArgs, fault \in ResolverFaults :
           rugged_branch_lookup(refs, a, fault).error = "GIT_ERROR"
           => /\ fault # "none"
              /\ a.kind = "str"
                    => /\ rb_git_branch_collection_aref(refs, a, fault).ret = "raise"
                       /\ rb_git_branch_collection_aref(refs, a, fault).err = "GIT_ERROR"
    /\ (last.op = "aref" /\ last.err = "GIT_ERROR") => last.ret = "raise"

C13_Witness ==
    /\ last.op = "aref" /\ last.ret = "raise" /\ last.err = "GIT_ERROR"
    /\ last.arg = StrArg(<<"x">>)
    /\ <<"refs", "heads", "x">> \notin DOMAIN refs
    /\ <<"refs", "remotes", "x">> \in DOMAIN refs

\* the resolver looked exactly the reference name up: it returns the
\* reference when the store holds it and not-found when it does not
Verbatim(store, a, name) ==
    LET r == rugged_branch_lookup(store, a, "none")
    IN  /\ name \in DOMAIN store => (r.error = "GIT_OK" /\ r.branch = Ptr(name))
        /\ name \notin DOMAIN store => r.error = "GIT_ENOTFOUND"
        /\ rugged_branch_lookup(store, a, "local") = r
        /\ rugged_branch_lookup(store, a, "remote") = r
        /\ rugged_branch_lookup(store, a, "direct").error = "GIT_ERROR"

\* C14: a string that begins with refs/heads/ or refs/remotes/ or is HEAD
\* is resolved by one lookup of that very name, which is the only lookup
\* that can fail: the result is not-found when the name is absent, whether
\* or not refs/heads/<name>, refs/remotes/<name> or refs/<name> exists; a
\* Rugged::Branch is resolved by one lookup of its canonical name.
C14_VerbatimLookup ==
    /\ \A n \in AnyNames : ~BareName(n) => Verbatim(refs, StrArg(n), n)
    /\ \A b \in AllNames : Verbatim(refs, BranchArg(b), b)
    /\ (last.op = "aref" /\ ~BareName(last.arg.name) /\ last.ret = "branch")
           => last.branch = last.arg.name

C14_Witness ==
    /\ last.op = "aref" /\ last.ret = "nil"
    /\ last.arg = StrArg(<<"refs", "heads", "x">>)
    /\ <<"refs", "heads", "refs", "heads", "x">> \in DOMAIN refs

\* C15: for a name n that is looked up in the namespaces, with neither
\* refs/heads/n nor refs/remotes/n in the store, the resolver returns the
\* reference refs/n when it exists; it returns not-found exactly when
\* refs/heads/n, refs/remotes/n and refs/n are all absent.
C15_RawFallback ==
    /\ \A n \in AnyNames :
           LET r == rugged_branch_lookup(refs, StrArg(n), "none")
           IN  BareName(n)
               => /\ (/\ HeadsPrefix \o n \notin DOMAIN refs
                      /\ RemotesPrefix \o n \notin DOMAIN refs
                      /\ RefsPrefix \o n \in DOMAIN refs)
                        => (r.error = "GIT_OK" /\ r.branch = Ptr(RefsPrefix \o n))
                  /\ r.error = "GIT_ENOTFOUND"
                        <=> CandidateSet(n) \cap DOMAIN refs = {}
    /\ (last.op = "aref" /\ BareName(last.arg.name) /\ last.ret = "nil")
           => CandidateSet(last.arg.name) \cap DOMAIN refs = {}

C15_Witness ==
    /\ last.op = "aref" /\ last.ret = "branch"
    /\ last.arg = StrArg(<<"tags", "x">>)
    /\ last.branch = <<"refs", "tags", "x">>

\* a reference under refs/heads/ or refs/remotes/
IsBranch(n) == IsLocal(n) \/ IsRemote(n)

\* C16: every Rugged::Branch that lookup, create or move returns or that
\* each yields wraps a reference under refs/heads/ or refs/remotes/, and
\* exists(name) is true only when name resolves to such a reference, one
\* that iteration without a filter yields.
C16_OnlyBranches ==
    /\ last.ret = "branch" => IsBranch(last.branch)
    /\ (last.op = "exist_p" /\ last.ret = "true")
           => /\ IsBranch(Resolved(refs, last.arg))
              /\ Resolved(refs, last.arg) \in Expected(refs, "all")
    /\ (it.pc # "idle" /\ ~it.names_only)
           => \A i \in 1..Len(it.yielded) : IsBranch(it.yielded[i])

\* the part of C16 that is about create, move and each
C16_WrittenAndYielded ==
    /\ (last.op \in {"create", "move"} /\ last.ret = "branch")
           => IsLocal(last.branch)
    /\ (it.pc # "idle" /\ ~it.names_only)
           => \A i \in 1..Len(it.yielded) : IsBranch(it.yielded[i])

\* move(a, n2, force=false) to an existing refs/heads/n2 raises
\* AlreadyExists and leaves the store as it was
MoveRefused(store, a, n2) ==
    \A f \in {"nil", "false"} :
        /\ DoMove(store, a, n2, f).ret = "raise"
        /\ DoMove(store, a, n2, f).err = "GIT_EEXISTS"
        /\ DoMove(store, a, n2, f).store = store

\* move(a, n2, force=true) returns refs/heads/n2 with the target the
\* reference r had, and changes no reference but r and refs/heads/n2
MoveForced(store, a, n2, r) ==
    LET o == DoMove(store, a, n2, "true")
        dst == HeadsPrefix \o n2
    IN  /\ o.ret = "branch"
        /\ o.branch = dst
        /\ o.target = store[r]
        /\ DOMAIN o.store = (DOMAIN store \ {r}) \cup {dst}
        /\ o.store[dst] = store[r]
        /\ \A other \in DOMAIN store \ {r, dst} : o.store[other] = store[other]

Visited(i) ==
    SubSeq(git_branch_iterator_new(refs, i.filter), 1, Len(i.yielded))

\* C18: at every point of an iteration, what each_name has yielded is,
\* element by element, the shorthand of the references the cursor has
\* passed, and what each has yielded is those references themselves, in the
\* store's order for the filter; a call that returns nil has passed them
\* all.  So each_name's strings are the shorthands of each's branches.
C18_SameTraversal ==
    it.pc # "idle"
    => /\ Len(it.yielded) <= Len(git_branch_iterator_new(refs, it.filter))
       /\ \A i \in 1..Len(it.yielded) :
             it.yielded[i] = IF it.names_only THEN Shorthand(Visited(it)[i])
                             ELSE Visited(it)[i]
       /\ (it.pc = "done" /\ it.ret = "nil" /\ it.iter = "freed")
             => Visited(it) = git_branch_iterator_new(refs, it.filter)

C18_Witness ==
    /\ it.pc = "done" /\ it.ret = "nil" /\ it.names_only
    /\ it.filter = "all"
    /\ it.yielded = << <<"m">>, <<"x">> >>
    /\ Visited(it) = << <<"refs", "heads", "m">>, <<"refs", "remotes", "x">> >>

\* the block has raised in the call in progress, which has not yet come
\* back to the caller
BlockRaised == it.pc \in {"loop", "free"} /\ it.exception

\* C19: once the block has raised, no step of the call advances the cursor
\* or yields; the call ends having released the cursor once, and raises
\* the block's exception to the caller.
C19_BlockRaiseEnds ==
    /\ [][BlockRaised => /\ it'.advanced = it.advanced
                          /\ it'.yielded = it.yielded
                          /\ it'.exception
                          /\ it'.pc = IF it.pc = "loop" THEN "free" ELSE "done"]_vars
    /\ []((it.pc = "done" /\ it.exception)
             => /\ it.ret = "raise" /\ it.err = "BlockError"
                /\ it.released = 1 /\ it.iter = "freed")
    /\ [](last.err = "BlockError" => last.ret = "raise")

C19_Witness ==
    /\ it.pc = "done" /\ it.exception
    /\ it.ret = "raise" /\ it.err = "BlockError"
    /\ Len(it.yielded) = 1 /\ it.advanced = 1
    /\ it.cursor # <<>>

\* every reference obtained was released once or given to a Rugged::Branch,
\* and nothing else was released
Balanced(h) == h.obtained = h.released + h.wrapped /\ ~h.wild

\* C20: in lookup, exists, delete, move, each and each_name, with every
\* argument and every outcome of the store's lookups, each reference
\* obtained from a lookup or from the cursor is released once or handed to
\* the Rugged::Branch returned or yielded, and no reference is released
\* that the lookup did not produce.
C20_HandlesBalanced ==
    /\ \A a \in AnyArgs, fault \in ResolverFaults :
           /\ Balanced(aref_handles(refs, a, fault))
           /\ Balanced(exist_p_handles(refs, a, fault))
           /\ Balanced(delete_handles(refs, a, fault))
           /\ \A n2 \in AnyNames :
                 Balanced(move_handles(refs, a, StrArg(n2), fault))
    /\ it.pc # "idle" => Balanced(each_branch_handles(it))

\* the part of C20 that is about lookup, delete, move and each
C20_OtherMethods ==
    /\ \A a \in AnyArgs, fault \in ResolverFaults :
           /\ Balanced(aref_handles(refs, a, fault))
           /\ Balanced(delete_handles(refs, a, fault))
           /\ \A n2 \in AnyNames :
                 Balanced(move_handles(refs, a, StrArg(n2), fault))
           /\ exist_p_handles(refs, a, fault).obtained
                 = exist_p_handles(refs, a, fault).released
    /\ (it.pc # "idle" /\ ~it.names_only) => Balanced(each_branch_handles(it))

====
